---- MODULE Spec2Model ----
(***************************************************************************)
(* Model of src/api/client.py: the three operations of the polling-service *)
(* client (fetch_polls, cast_vote, get_poll_results).  Each operation      *)
(* builds one request, hands it to the transport, blocks until the         *)
(* transport answers or raises, and then returns the parsed body or        *)
(* raises.  Strings are sequences of one-character strings, so that        *)
(* formatting, stripping and "contains" are computed, not assumed.         *)
(***************************************************************************)
EXTENDS Integers, Sequences, FiniteSets

VARIABLES
    pc,         \* "idle" | "waiting" (blocked in http.get / http.post) | "done"
    op,         \* the operation of the current call
    args,       \* the arguments of the current call
    request,    \* the request handed to the transport by the current call
    result,     \* what the transport gave back: a response, or a raised exception
    outcome,    \* how the call ended: a returned value or a raised exception
    calls,      \* number of calls started so far
    nrequests   \* number of HTTP requests handed to the transport so far

vars == <<pc, op, args, request, result, outcome, calls, nrequests>>

---------------------------------------------------------------------------
\* Bounds of the model.

MaxCalls == 2       \* calls made by the caller in one behaviour
MaxItems == 2       \* length of a JSON array in a response body
MaxBodyLen == 2     \* length of the text of a response body

---------------------------------------------------------------------------
\* Strings.

SeqsUpTo(S, n) == UNION {[1..k -> S] : k \in 0..n}

DigitChar(d) ==
    CASE d = 0 -> "0" [] d = 1 -> "1" [] d = 2 -> "2" [] d = 3 -> "3"
      [] d = 4 -> "4" [] d = 5 -> "5" [] d = 6 -> "6" [] d = 7 -> "7"
      [] d = 8 -> "8" [] d = 9 -> "9"

\* str(n) / f"{n}" of a non-negative int.
RECURSIVE Digits(_)
Digits(n) == IF n < 10 THEN <<DigitChar(n)>>
             ELSE Digits(n \div 10) \o <<DigitChar(n % 10)>>

\* s.rstrip(chars)
RECURSIVE rstrip(_, _)
rstrip(s, chars) ==
    IF Len(s) > 0 /\ s[Len(s)] \in chars
    THEN rstrip(SubSeq(s, 1, Len(s) - 1), chars)
    ELSE s

RECURSIVE lstrip(_, _)
lstrip(s, chars) ==
    IF Len(s) > 0 /\ s[1] \in chars THEN lstrip(Tail(s), chars) ELSE s

\* The characters str.strip() removes (those the model's bodies can hold).
Whitespace == {" ", "\t", "\n", "\r"}

\* s.strip()
strip(s) == lstrip(rstrip(s, Whitespace), Whitespace)

\* sub in s
Contains(s, sub) ==
    \E i \in 0..(Len(s) - Len(sub)) : SubSeq(s, i + 1, i + Len(sub)) = sub

EndsWith(s, suffix) ==
    /\ Len(suffix) <= Len(s)
    /\ SubSeq(s, Len(s) - Len(suffix) + 1, Len(s)) = suffix

Min(a, b) == IF a <= b THEN a ELSE b

\* Python's `a or b` on strings: a when a is non-empty, else b.
StrOr(a, b) == IF Len(a) > 0 THEN a ELSE b

---------------------------------------------------------------------------
\* Inputs of the operations.

Skips == {0, 1}
Limits == {1, 2}
PollIds == {7, 42}
OptionIds == {3, 4}
BaseUrls == {<<"h">>, <<"h", "/">>, <<"h", "/", "/">>}
Timeouts == {10}
Sessions == {"None", "S"}

\* bearer_token: Optional[str]: None, or a string (possibly empty).
NoToken == [given |-> FALSE, s |-> <<>>]
Tokens == {NoToken} \cup {[given |-> TRUE, s |-> s] : s \in {<<>>, <<"j">>, <<"j", "w">>}}

NoArgs == [none |-> TRUE]

---------------------------------------------------------------------------
\* JSON values a response body can parse to.

Options == {[id |-> 3, text |-> <<"A">>, poll_id |-> 7]}

Polls ==
    {[id |-> 7, question |-> <<"Q">>, created_at |-> <<"T">>, owner_id |-> 1,
      options |-> <<>>]}
    \cup
    {[id |-> 42, question |-> <<"R">>, created_at |-> <<"U">>, owner_id |-> 2,
      options |-> <<o>>] : o \in Options}

PollArrays == {[t |-> "array", items |-> s] : s \in SeqsUpTo(Polls, MaxItems)}

Votes ==
    {[t |-> "object", id |-> 1, user_id |-> 5, option_id |-> o, created_at |-> <<"T">>] :
        o \in OptionIds}

PollResultItems ==
    {[option_id |-> 3, text |-> <<"A">>, vote_count |-> 2],
     [option_id |-> 4, text |-> <<"B">>, vote_count |-> 0]}

PollResultsObjects ==
    {[t |-> "object", poll_id |-> p, question |-> <<"Q">>, results |-> s] :
        p \in PollIds, s \in SeqsUpTo(PollResultItems, MaxItems)}

JsonNull == [t |-> "null"]

JsonValues == PollArrays \cup Votes \cup PollResultsObjects \cup {JsonNull}

---------------------------------------------------------------------------
\* What the transport can give back.

StatusCodes == {200, 201, 302, 404, 503}
Reasons == {<<"N">>}
BodyChars == {"b", " "}
Bodies == SeqsUpTo(BodyChars, MaxBodyLen)

\* Exceptions raised by http.get / http.post themselves.
TransportErrors == {"Timeout", "ConnectionError"}

Responses ==
    {[kind |-> "response", status_code |-> c, reason |-> r, text |-> b,
      json_ok |-> TRUE, json |-> j] :
        c \in StatusCodes, r \in Reasons, b \in Bodies, j \in JsonValues}
    \cup
    {[kind |-> "response", status_code |-> c, reason |-> r, text |-> b,
      json_ok |-> FALSE] :
        c \in StatusCodes, r \in Reasons, b \in Bodies}

Raised == {[kind |-> "raised", exc |-> e] : e \in TransportErrors}

TransportResults == Responses \cup Raised

NoResult == [kind |-> "none"]
NoRequest == [method |-> "none"]
NoOutcome == [kind |-> "none"]

Return(v) == [kind |-> "return", value |-> v]
Raise(type, msg, cause) == [kind |-> "raise", type |-> type, msg |-> msg, cause |-> cause]
NoCause == [type |-> "none"]

---------------------------------------------------------------------------
\* The transport library (requests), as the client uses it.

\* `session or requests`: a supplied session carries the call, else the module.
Transport(session) == IF session # "None" THEN session ELSE "requests"

\* `d or None` on a dict d (a set of <<key, value>> pairs): None when d is empty.
DictOrNone(d) == IF d = {} THEN [is_none |-> TRUE] ELSE [is_none |-> FALSE, dict |-> d]

\* str(e) of the HTTPError that Response.raise_for_status() builds.
HTTPErrorMsg(status_code, reason, url) ==
    Digits(status_code)
    \o (IF status_code < 500
        THEN <<" ","C","l","i","e","n","t"," ","E","r","r","o","r",":"," ">>
        ELSE <<" ","S","e","r","v","e","r"," ","E","r","r","o","r",":"," ">>)
    \o reason
    \o <<" ","f","o","r"," ","u","r","l",":"," ">>
    \o url

\* The text of the raise that follows the try/except in each operation.
Unexpected ==
    <<"U","n","e","x","p","e","c","t","e","d"," ","s","t","a","t","u","s"," ","c","o","d","e"," ">>

\* resp.raise_for_status(): raises HTTPError for 4xx and 5xx, returns otherwise.
raise_for_status(resp, url) ==
    IF 400 <= resp.status_code /\ resp.status_code < 600
    THEN [type |-> "HTTPError", msg |-> HTTPErrorMsg(resp.status_code, resp.reason, url)]
    ELSE NoCause

---------------------------------------------------------------------------
\* fetch_polls

FetchPollsArgs ==
    {[skip |-> s, limit |-> l, base_url |-> b, timeout |-> t, session |-> x] :
        s \in Skips, l \in Limits, b \in BaseUrls, t \in Timeouts, x \in Sessions}

\* The request fetch_polls hands to http.get.
fetch_polls_request(a) ==
    [method |-> "GET",
     via |-> Transport(a.session),
     url |-> rstrip(a.base_url, {"/"}) \o <<"/","p","o","l","l","s">>,
     params |-> {<<"skip", a.skip>>, <<"limit", a.limit>>},
     timeout |-> a.timeout]

\* Faulty variant: the status code is left out of the message.
fetch_polls_error_no_status(a, r) ==
    LET e == raise_for_status(r, fetch_polls_request(a).url)
        text == strip(r.text)
    IN  IF e.type = "HTTPError"
        THEN Raise("PollsFetchError",
                   <<"G","E","T"," ","/","p","o","l","l","s"," ","f","a","i","l","e","d"," ","(">>
                   \o <<")",":"," ">> \o StrOr(text, e.msg),
                   e)
        ELSE Raise("PollsFetchError", Unexpected \o Digits(r.status_code), NoCause)

\* The non-200 branch of fetch_polls: raise_for_status() inside try/except, then
\* the raise after it.
fetch_polls_error(a, r) ==
    LET e == raise_for_status(r, fetch_polls_request(a).url)
        text == strip(r.text)
    IN  IF e.type = "HTTPError"
        THEN Raise("PollsFetchError",
                   <<"G","E","T"," ","/","p","o","l","l","s"," ","f","a","i","l","e","d"," ","(">>
                   \o Digits(r.status_code) \o <<")",":"," ">>
                   \o StrOr(text, e.msg),
                   e)
        ELSE Raise("PollsFetchError", Unexpected \o Digits(r.status_code), NoCause)

\* Faulty variant: the returned list is cut to `limit` items.
fetch_polls_outcome_truncated(a, r) ==
    IF r.kind = "raised" THEN Raise(r.exc, <<>>, NoCause)
    ELSE IF r.status_code = 200 THEN
        IF r.json_ok
        THEN IF r.json.t = "array"
             THEN Return([t |-> "array",
                          items |-> SubSeq(r.json.items, 1, Min(a.limit, Len(r.json.items)))])
             ELSE Return(r.json)
        ELSE Raise("JSONDecodeError", <<>>, NoCause)
    ELSE fetch_polls_error(a, r)

\* Faulty variant: a body that does not parse is reported as the operation's own error.
fetch_polls_outcome_wrapping_decode(a, r) ==
    IF r.kind = "raised" THEN Raise(r.exc, <<>>, NoCause)
    ELSE IF r.status_code = 200 THEN
        IF r.json_ok THEN Return(r.json)
        ELSE Raise("PollsFetchError", Unexpected \o Digits(r.status_code), NoCause)
    ELSE fetch_polls_error(a, r)

\* How fetch_polls ends, given what the transport gave back: an exception raised by
\* the transport is not caught; a 200 response is parsed and returned as it is.
fetch_polls_outcome(a, r) ==
    IF r.kind = "raised" THEN Raise(r.exc, <<>>, NoCause)
    ELSE IF r.status_code = 200 THEN
        IF r.json_ok THEN Return(r.json) ELSE Raise("JSONDecodeError", <<>>, NoCause)
    ELSE fetch_polls_error(a, r)

---------------------------------------------------------------------------
\* cast_vote

CastVoteArgs ==
    {[poll_id |-> p, option_id |-> o, base_url |-> b, timeout |-> t, session |-> x,
      bearer_token |-> k] :
        p \in PollIds, o \in OptionIds, b \in BaseUrls, t \in Timeouts, x \in Sessions,
        k \in Tokens}

\* `if bearer_token:`: None and the empty string are both false.
Truthy(token) == token.given /\ Len(token.s) > 0

\* Faulty variant: the token is sent without the "Bearer " scheme.
cast_vote_headers_raw_token(a) ==
    IF Truthy(a.bearer_token) THEN {<<"Authorization", a.bearer_token.s>>} ELSE {}

\* The headers dict cast_vote builds.
cast_vote_headers(a) ==
    IF Truthy(a.bearer_token)
    THEN {<<"Authorization", <<"B","e","a","r","e","r"," ">> \o a.bearer_token.s>>}
    ELSE {}

\* The request cast_vote hands to http.post.
cast_vote_request(a) ==
    [method |-> "POST",
     via |-> Transport(a.session),
     url |-> rstrip(a.base_url, {"/"}) \o <<"/","p","o","l","l","s","/">>
             \o Digits(a.poll_id) \o <<"/","v","o","t","e">>,
     json |-> {<<"option_id", a.option_id>>},
     headers |-> DictOrNone(cast_vote_headers(a)),
     timeout |-> a.timeout]

\* Faulty variant: every non-200 status gets the message of the last raise.
cast_vote_error_no_body(a, r) ==
    Raise("VotingError", Unexpected \o Digits(r.status_code), NoCause)

\* The non-200 branch of cast_vote: raise_for_status() inside try/except, then
\* the raise after it.
cast_vote_error(a, r) ==
    LET e == raise_for_status(r, cast_vote_request(a).url)
        text == strip(r.text)
    IN  IF e.type = "HTTPError"
        THEN Raise("VotingError",
                   <<"P","O","S","T"," ","/","p","o","l","l","s","/">>
                   \o Digits(a.poll_id)
                   \o <<"/","v","o","t","e"," ","f","a","i","l","e","d"," ","(">>
                   \o Digits(r.status_code) \o <<")",":"," ">>
                   \o StrOr(text, e.msg),
                   e)
        ELSE Raise("VotingError", Unexpected \o Digits(r.status_code), NoCause)

\* Faulty variant: the returned vote echoes the option_id of the request.
cast_vote_outcome_echo(a, r) ==
    IF r.kind = "raised" THEN Raise(r.exc, <<>>, NoCause)
    ELSE IF r.status_code = 200 THEN
        IF r.json_ok
        THEN IF r.json \in Votes
             THEN Return([r.json EXCEPT !.option_id = a.option_id])
             ELSE Return(r.json)
        ELSE Raise("JSONDecodeError", <<>>, NoCause)
    ELSE cast_vote_error(a, r)

\* How cast_vote ends, given what the transport gave back: an exception raised by
\* the transport is not caught; a 200 response is parsed and returned as it is.
cast_vote_outcome(a, r) ==
    IF r.kind = "raised" THEN Raise(r.exc, <<>>, NoCause)
    ELSE IF r.status_code = 200 THEN
        IF r.json_ok THEN Return(r.json) ELSE Raise("JSONDecodeError", <<>>, NoCause)
    ELSE cast_vote_error(a, r)

---------------------------------------------------------------------------
\* get_poll_results

GetPollResultsArgs ==
    {[poll_id |-> p, base_url |-> b, timeout |-> t, session |-> x] :
        p \in PollIds, b \in BaseUrls, t \in Timeouts, x \in Sessions}

\* The request get_poll_results hands to http.get.
get_poll_results_request(a) ==
    [method |-> "GET",
     via |-> Transport(a.session),
     url |-> rstrip(a.base_url, {"/"}) \o <<"/","p","o","l","l","s","/">>
             \o Digits(a.poll_id) \o <<"/","r","e","s","u","l","t","s">>,
     timeout |-> a.timeout]

\* Faulty variant: the body is used as it is, not stripped.
get_poll_results_error_unstripped(a, r) ==
    LET e == raise_for_status(r, get_poll_results_request(a).url)
        text == r.text
    IN  IF e.type = "HTTPError"
        THEN Raise("PollResultsFetchError",
                   <<"G","E","T"," ","/","p","o","l","l","s","/">>
                   \o Digits(a.poll_id)
                   \o <<"/","r","e","s","u","l","t","s"," ","f","a","i","l","e","d"," ","(">>
                   \o Digits(r.status_code) \o <<")",":"," ">>
                   \o StrOr(text, e.msg),
                   e)
        ELSE Raise("PollResultsFetchError", Unexpected \o Digits(r.status_code), NoCause)

\* The non-200 branch of get_poll_results: raise_for_status() inside try/except, then
\* the raise after it.
get_poll_results_error(a, r) ==
    LET e == raise_for_status(r, get_poll_results_request(a).url)
        text == strip(r.text)
    IN  IF e.type = "HTTPError"
        THEN Raise("PollResultsFetchError",
                   <<"G","E","T"," ","/","p","o","l","l","s","/">>
                   \o Digits(a.poll_id)
                   \o <<"/","r","e","s","u","l","t","s"," ","f","a","i","l","e","d"," ","(">>
                   \o Digits(r.status_code) \o <<")",":"," ">>
                   \o StrOr(text, e.msg),
                   e)
        ELSE Raise("PollResultsFetchError", Unexpected \o Digits(r.status_code), NoCause)

\* Faulty variant: the result items are returned in reverse order.
get_poll_results_outcome_reversed(a, r) ==
    IF r.kind = "raised" THEN Raise(r.exc, <<>>, NoCause)
    ELSE IF r.status_code = 200 THEN
        IF r.json_ok
        THEN IF r.json \in PollResultsObjects
             THEN Return([r.json EXCEPT !.results =
                            [i \in 1..Len(@) |-> @[Len(@) + 1 - i]]])
             ELSE Return(r.json)
        ELSE Raise("JSONDecodeError", <<>>, NoCause)
    ELSE get_poll_results_error(a, r)

\* Faulty variant: an exception of the transport is wrapped in the operation's error.
get_poll_results_outcome_wrapping_transport(a, r) ==
    IF r.kind = "raised" THEN Raise("PollResultsFetchError", <<>>, [type |-> r.exc])
    ELSE IF r.status_code = 200 THEN
        IF r.json_ok THEN Return(r.json) ELSE Raise("JSONDecodeError", <<>>, NoCause)
    ELSE get_poll_results_error(a, r)

\* How get_poll_results ends, given what the transport gave back: an exception raised by
\* the transport is not caught; a 200 response is parsed and returned as it is.
get_poll_results_outcome(a, r) ==
    IF r.kind = "raised" THEN Raise(r.exc, <<>>, NoCause)
    ELSE IF r.status_code = 200 THEN
        IF r.json_ok THEN Return(r.json) ELSE Raise("JSONDecodeError", <<>>, NoCause)
    ELSE get_poll_results_error(a, r)

---------------------------------------------------------------------------
\* The calls.  A call starts when the caller invokes the operation: the
\* operation builds its request and blocks in the transport.  It ends when the
\* transport answers or raises: the operation then returns or raises.

Init ==
    /\ pc = "idle"
    /\ op = "none"
    /\ args = NoArgs
    /\ request = NoRequest
    /\ result = NoResult
    /\ outcome = NoOutcome
    /\ calls = 0
    /\ nrequests = 0

\* A call is entered with `a`; `req` goes to the transport.
Send(name, a, req) ==
    /\ pc = "idle"
    /\ calls < MaxCalls
    /\ pc' = "waiting"
    /\ op' = name
    /\ args' = a
    /\ request' = req
    /\ result' = NoResult
    /\ outcome' = NoOutcome
    /\ calls' = calls + 1
    /\ nrequests' = nrequests + 1

fetch_polls_call == \E a \in FetchPollsArgs : Send("fetch_polls", a, fetch_polls_request(a))

cast_vote_call == \E a \in CastVoteArgs : Send("cast_vote", a, cast_vote_request(a))

get_poll_results_call ==
    \E a \in GetPollResultsArgs : Send("get_poll_results", a, get_poll_results_request(a))

\* Faulty variant: a failed request is sent once more before the call ends.
fetch_polls_end_retry ==
    /\ pc = "waiting" /\ op = "fetch_polls"
    /\ \E t \in TransportResults :
        IF (t.kind = "raised" \/ t.status_code # 200) /\ nrequests = calls
        THEN /\ nrequests' = nrequests + 1
             /\ UNCHANGED <<pc, op, args, request, result, outcome, calls>>
        ELSE /\ result' = t
             /\ outcome' = fetch_polls_outcome(args, t)
             /\ pc' = "done"
             /\ UNCHANGED <<op, args, request, calls, nrequests>>

fetch_polls_end ==
    /\ pc = "waiting" /\ op = "fetch_polls"
    /\ \E t \in TransportResults :
        /\ result' = t
        /\ outcome' = fetch_polls_outcome(args, t)
    /\ pc' = "done"
    /\ UNCHANGED <<op, args, request, calls, nrequests>>

cast_vote_end ==
    /\ pc = "waiting" /\ op = "cast_vote"
    /\ \E t \in TransportResults :
        /\ result' = t
        /\ outcome' = cast_vote_outcome(args, t)
    /\ pc' = "done"
    /\ UNCHANGED <<op, args, request, calls, nrequests>>

get_poll_results_end ==
    /\ pc = "waiting" /\ op = "get_poll_results"
    /\ \E t \in TransportResults :
        /\ result' = t
        /\ outcome' = get_poll_results_outcome(args, t)
    /\ pc' = "done"
    /\ UNCHANGED <<op, args, request, calls, nrequests>>

\* The caller has taken the returned value or the exception; the call is over.
caller_continue ==
    /\ pc = "done"
    /\ pc' = "idle"
    /\ op' = "none"
    /\ args' = NoArgs
    /\ request' = NoRequest
    /\ result' = NoResult
    /\ outcome' = NoOutcome
    /\ UNCHANGED <<calls, nrequests>>

Next ==
    \/ fetch_polls_call
    \/ cast_vote_call
    \/ get_poll_results_call
    \/ fetch_polls_end
    \/ cast_vote_end
    \/ get_poll_results_end
    \/ caller_continue

Spec == Init /\ [][Next]_vars

---------------------------------------------------------------------------
\* Properties.

Ended(name) == pc = "done" /\ op = name
Answered == result.kind = "response"
IsHTTPErrorStatus(c) == 400 <= c /\ c < 600

OwnError(name) ==
    CASE name = "fetch_polls" -> "PollsFetchError"
      [] name = "cast_vote" -> "VotingError"
      [] name = "get_poll_results" -> "PollResultsFetchError"

OwnErrors == {"PollsFetchError", "VotingError", "PollResultsFetchError"}

\* C1: when fetch_polls, called with skip >= 0 and limit > 0, has sent its GET to
\* .../polls with the query parameters skip and limit of the call and the answer
\* is a 200 whose body is a JSON array, the call returns a list of the same
\* length whose polls have, position by position, the id, question,
\* created_at, owner_id and options of the response.
C1_FetchPollsReturnsTheArray ==
    (/\ Ended("fetch_polls") /\ args.skip >= 0 /\ args.limit > 0
     /\ Answered /\ result.status_code = 200 /\ result.json_ok
     /\ result.json.t = "array")
    => /\ request.method = "GET"
       /\ EndsWith(request.url, <<"/","p","o","l","l","s">>)
       /\ request.params = {<<"skip", args.skip>>, <<"limit", args.limit>>}
       /\ outcome.kind = "return"
       /\ outcome.value.t = "array"
       /\ Len(outcome.value.items) = Len(result.json.items)
       /\ \A i \in 1..Len(result.json.items) :
            /\ outcome.value.items[i].id = result.json.items[i].id
            /\ outcome.value.items[i].question = result.json.items[i].question
            /\ outcome.value.items[i].created_at = result.json.items[i].created_at
            /\ outcome.value.items[i].owner_id = result.json.items[i].owner_id
            /\ outcome.value.items[i].options = result.json.items[i].options

\* A 200 answer with more polls than `limit`, two different ones, was returned.
C1_Witness ==
    /\ Ended("fetch_polls") /\ Answered /\ result.status_code = 200 /\ result.json_ok
    /\ result.json.t = "array"
    /\ Len(result.json.items) > args.limit
    /\ result.json.items[1] # result.json.items[2]
    /\ outcome.kind = "return"

\* C2 as stated: for every answer of fetch_polls whose status is not 200 the call
\* raises PollsFetchError and the message contains the status code and the text
\* of the response body.
C2_AsStated ==
    (Ended("fetch_polls") /\ Answered /\ result.status_code # 200)
    => /\ outcome.kind = "raise"
       /\ outcome.type = "PollsFetchError"
       /\ Contains(outcome.msg, Digits(result.status_code))
       /\ Contains(outcome.msg, result.text)

\* C2 as amended: for every answer of fetch_polls whose status is not 200 the call
\* raises PollsFetchError and the message contains the status code; for a 4xx or
\* 5xx status it also contains the body text stripped of surrounding
\* whitespace; for any other status it is "Unexpected status code <status>".
C2_FetchPollsErrorMessage ==
    (Ended("fetch_polls") /\ Answered /\ result.status_code # 200)
    => /\ outcome.kind = "raise"
       /\ outcome.type = "PollsFetchError"
       /\ Contains(outcome.msg, Digits(result.status_code))
       /\ IF IsHTTPErrorStatus(result.status_code)
          THEN Contains(outcome.msg, strip(result.text))
          ELSE outcome.msg = Unexpected \o Digits(result.status_code)

\* fetch_polls got a 404 whose body has text and surrounding whitespace.
C2_Witness ==
    /\ Ended("fetch_polls") /\ Answered /\ result.status_code = 404
    /\ Len(strip(result.text)) > 0 /\ strip(result.text) # result.text
    /\ outcome.kind = "raise"

\* C3 as stated: for every answer of cast_vote whose status is not 200 the call
\* raises VotingError and the message contains the status code and the response
\* body.
C3_AsStated ==
    (Ended("cast_vote") /\ Answered /\ result.status_code # 200)
    => /\ outcome.kind = "raise"
       /\ outcome.type = "VotingError"
       /\ Contains(outcome.msg, Digits(result.status_code))
       /\ Contains(outcome.msg, result.text)

\* C3 as amended: for every answer of cast_vote whose status is not 200 the call
\* raises VotingError and the message contains the status code; for a 4xx or 5xx
\* status it also contains the body text stripped of surrounding whitespace;
\* for any other status it is "Unexpected status code <status>".
C3_CastVoteErrorMessage ==
    (Ended("cast_vote") /\ Answered /\ result.status_code # 200)
    => /\ outcome.kind = "raise"
       /\ outcome.type = "VotingError"
       /\ Contains(outcome.msg, Digits(result.status_code))
       /\ IF IsHTTPErrorStatus(result.status_code)
          THEN Contains(outcome.msg, strip(result.text))
          ELSE outcome.msg = Unexpected \o Digits(result.status_code)

\* cast_vote got a 503 with a body that has text.
C3_Witness ==
    /\ Ended("cast_vote") /\ Answered /\ result.status_code = 503
    /\ Len(strip(result.text)) > 0
    /\ outcome.kind = "raise"

BearerOf(token) == <<"B","e","a","r","e","r"," ">> \o token.s

VotePath(poll_id) ==
    <<"/","p","o","l","l","s","/">> \o Digits(poll_id) \o <<"/","v","o","t","e">>

\* C4 as stated: the POST of cast_vote carries Authorization: "Bearer " + token
\* for every supplied token string, and no headers when no token is supplied; the
\* JSON body is {option_id} and the path is /polls/<poll_id>/vote.
C4_AsStated ==
    (op = "cast_vote" /\ pc \in {"waiting", "done"})
    => /\ request.method = "POST"
       /\ request.json = {<<"option_id", args.option_id>>}
       /\ EndsWith(request.url, VotePath(args.poll_id))
       /\ IF args.bearer_token.given
          THEN /\ ~request.headers.is_none
               /\ request.headers.dict = {<<"Authorization", BearerOf(args.bearer_token)>>}
          ELSE request.headers.is_none

\* C4 as amended: the POST of cast_vote carries Authorization: "Bearer " + token
\* for every supplied non-empty token string, and no headers when no token or an
\* empty token is supplied; the JSON body is {option_id} and the path is
\* /polls/<poll_id>/vote.
C4_CastVoteRequest ==
    (op = "cast_vote" /\ pc \in {"waiting", "done"})
    => /\ request.method = "POST"
       /\ request.json = {<<"option_id", args.option_id>>}
       /\ EndsWith(request.url, VotePath(args.poll_id))
       /\ IF args.bearer_token.given /\ Len(args.bearer_token.s) > 0
          THEN /\ ~request.headers.is_none
               /\ request.headers.dict = {<<"Authorization", BearerOf(args.bearer_token)>>}
          ELSE request.headers.is_none

\* cast_vote has sent a request for a call with a token of two characters.
C4_Witness ==
    /\ op = "cast_vote" /\ pc = "waiting"
    /\ args.bearer_token.given /\ Len(args.bearer_token.s) = 2
    /\ ~request.headers.is_none

\* C5 as stated: for every answer whose status is not 200, each operation raises
\* its own error, whose message carries the status code and ends with the
\* response body when the body is non-empty, and otherwise with the message of
\* the underlying HTTP exception.
C5_AsStated ==
    (pc = "done" /\ Answered /\ result.status_code # 200)
    => /\ outcome.kind = "raise"
       /\ outcome.type = OwnError(op)
       /\ Contains(outcome.msg, Digits(result.status_code))
       /\ IF Len(result.text) > 0
          THEN EndsWith(outcome.msg, <<")",":"," ">> \o result.text)
          ELSE /\ outcome.cause.type = "HTTPError"
               /\ EndsWith(outcome.msg, <<")",":"," ">> \o outcome.cause.msg)

\* C5 as amended: for every answer whose status is not 200, each operation raises
\* its own error, whose message carries the status code.  For a 4xx or 5xx
\* status the error has the HTTP exception as its cause and the message ends
\* with the body stripped of surrounding whitespace when that is non-empty, and
\* otherwise with the message of the HTTP exception.  For any other status there
\* is no HTTP exception and the message is "Unexpected status code <status>".
C5_ErrorText ==
    (pc = "done" /\ Answered /\ result.status_code # 200)
    => /\ outcome.kind = "raise"
       /\ outcome.type = OwnError(op)
       /\ Contains(outcome.msg, Digits(result.status_code))
       /\ IF IsHTTPErrorStatus(result.status_code)
          THEN /\ outcome.cause.type = "HTTPError"
               /\ IF Len(strip(result.text)) > 0
                  THEN EndsWith(outcome.msg, <<"(">> \o Digits(result.status_code)
                                             \o <<")",":"," ">> \o strip(result.text))
                  ELSE EndsWith(outcome.msg, <<"(">> \o Digits(result.status_code)
                                             \o <<")",":"," ">> \o outcome.cause.msg)
          ELSE /\ outcome.cause.type = "none"
               /\ outcome.msg = Unexpected \o Digits(result.status_code)

\* get_poll_results got a 404 whose body is only whitespace: the text of the
\* error is the message of the HTTP exception.
C5_Witness ==
    /\ Ended("get_poll_results") /\ Answered /\ result.status_code = 404
    /\ Len(result.text) > 0 /\ Len(strip(result.text)) = 0
    /\ outcome.kind = "raise"
    /\ outcome.cause.type = "HTTPError"

\* C6: when cast_vote is answered with a 200 whose body is a vote object, the call
\* raises nothing and returns a vote whose id, user_id, option_id and created_at
\* are those of the response (the option_id of the server, not of the request).
C6_CastVoteReturnsTheVote ==
    (/\ Ended("cast_vote") /\ Answered /\ result.status_code = 200 /\ result.json_ok
     /\ result.json \in Votes)
    => /\ outcome.kind = "return"
       /\ outcome.value.id = result.json.id
       /\ outcome.value.user_id = result.json.user_id
       /\ outcome.value.option_id = result.json.option_id
       /\ outcome.value.created_at = result.json.created_at

\* The server's vote names another option than the request did.
C6_Witness ==
    /\ Ended("cast_vote") /\ Answered /\ result.status_code = 200 /\ result.json_ok
    /\ result.json \in Votes
    /\ result.json.option_id # args.option_id
    /\ outcome.kind = "return"

\* C7: when get_poll_results is answered with a 200 whose body is a results
\* object, the call returns the poll_id and question of the response and a
\* results sequence of the same length with the same option_id, text and
\* vote_count at every position.
C7_GetPollResultsKeepsOrder ==
    (/\ Ended("get_poll_results") /\ Answered /\ result.status_code = 200
     /\ result.json_ok /\ result.json \in PollResultsObjects)
    => /\ request.method = "GET"
       /\ EndsWith(request.url,
                   <<"/","p","o","l","l","s","/">> \o Digits(args.poll_id)
                   \o <<"/","r","e","s","u","l","t","s">>)
       /\ outcome.kind = "return"
       /\ outcome.value.poll_id = result.json.poll_id
       /\ outcome.value.question = result.json.question
       /\ Len(outcome.value.results) = Len(result.json.results)
       /\ \A i \in 1..Len(result.json.results) :
            /\ outcome.value.results[i].option_id = result.json.results[i].option_id
            /\ outcome.value.results[i].text = result.json.results[i].text
            /\ outcome.value.results[i].vote_count = result.json.results[i].vote_count

\* The response lists two items, the one with fewer votes first, and twice the
\* same option: nothing was sorted or merged.
C7_Witness ==
    /\ Ended("get_poll_results") /\ Answered /\ result.status_code = 200
    /\ result.json_ok /\ result.json \in PollResultsObjects
    /\ Len(result.json.results) = 2
    /\ result.json.results[1].vote_count < result.json.results[2].vote_count
    /\ outcome.kind = "return"
    /\ Len(outcome.value.results) = 2

\* C8: every call has handed exactly one request to the transport, whatever its
\* outcome, and a call that ended has either returned the parsed body of a 200
\* response or raised: no value is returned in any other case.
C8_OneRequestPerCall ==
    /\ nrequests = calls
    /\ pc = "waiting" => request.method \in {"GET", "POST"} /\ outcome.kind = "none"
    /\ pc = "done" =>
        IF Answered /\ result.status_code = 200 /\ result.json_ok
        THEN outcome.kind = "return" /\ outcome.value = result.json
        ELSE outcome.kind = "raise"

\* A second call has ended, in an error, after a first one.
C8_Witness ==
    /\ pc = "done" /\ calls = 2 /\ nrequests = 2
    /\ Answered /\ result.status_code = 503
    /\ outcome.kind = "raise"

\* C9: when the transport raises while sending, each operation ends by raising
\* that exception: not its own error kind, nothing chained, no value returned.
C9_TransportErrorPropagates ==
    (pc = "done" /\ result.kind = "raised")
    => /\ outcome.kind = "raise"
       /\ outcome.type = result.exc
       /\ outcome.type \notin OwnErrors
       /\ outcome.cause.type = "none"

\* get_poll_results ended in the transport's timeout.
C9_Witness ==
    /\ Ended("get_poll_results") /\ result.kind = "raised" /\ result.exc = "Timeout"
    /\ outcome.kind = "raise" /\ outcome.type = "Timeout"

\* C10: an operation raises its own error kind only for an answer whose status
\* is not 200; a 200 body that parses is returned as it is, whatever its shape;
\* a 200 body that does not parse ends the call in the parser's exception.
C10_OwnErrorOnlyForNon200 ==
    pc = "done" =>
        /\ (outcome.kind = "raise" /\ outcome.type \in OwnErrors)
            => (Answered /\ result.status_code # 200 /\ outcome.type = OwnError(op))
        /\ (Answered /\ result.status_code = 200 /\ result.json_ok)
            => outcome = Return(result.json)
        /\ (Answered /\ result.status_code = 200 /\ ~result.json_ok)
            => (outcome.kind = "raise" /\ outcome.type = "JSONDecodeError")

\* fetch_polls got a 200 whose body is no JSON: the parser's exception came out.
C10_Witness ==
    /\ Ended("fetch_polls") /\ Answered /\ result.status_code = 200 /\ ~result.json_ok
    /\ outcome.kind = "raise" /\ outcome.type = "JSONDecodeError"

====
